---- MODULE Spec2Model ----
(***************************************************************************)
(* Daily post generator with uniqueness guardrail (src/app.js, second      *)
(* script of the file, lines 36-280).                                      *)
(*                                                                         *)
(* A text is a sequence of characters, each character a one-character      *)
(* string.  A token is a sequence of characters as well.  Similarity       *)
(* scores are kept as exact fractions: a cosine score is the pair          *)
(* (dot, sq) standing for dot / sqrt(sq), a Jaccard score the pair         *)
(* (num, den) standing for num / den.  A cosine score whose arithmetic     *)
(* went through a non-number is NaN.                                       *)
(***************************************************************************)
EXTENDS Integers, Sequences, FiniteSets

VARIABLES
    feed,        \* data/posts.json: the posts array on disk
    today,       \* todayISO of the current process (a day counter)
    runs,        \* number of generator processes started so far
    pc,          \* position of main(): Idle, Trends, Generating, Evaluating,
                 \* Accepted, Exhausted, Error
    posts,       \* main: posts, as read from the file
    last15,      \* main: last15
    generated,   \* main: generated (the first candidate)
    isUnique,    \* main: isUnique (verdict of the first candidate)
    attempts,    \* main: attempts
    alt,         \* main: alt (the candidate of the current loop iteration)
    nGen,        \* history: chat() calls that returned in this run
    nEval,       \* history: ensureNovelty() calls of this run
    lastGen,     \* history: the text returned by the latest chat() call
    passed,      \* history: candidates of this run the guard accepted, in order
    written,     \* history: bodies handed to writePost() in this run, in order
    candidate,   \* guard harness: candidate text
    references,  \* guard harness: reference texts
    verdict,     \* guard harness: result of ensureNovelty
    gpc          \* guard harness: "off", "input" or "done"

vars == <<feed, today, runs, pc, posts, last15, generated, isUnique, attempts,
          alt, nGen, nEval, lastGen, passed, written,
          candidate, references, verdict, gpc>>

runVars == <<feed, today, runs, pc, posts, last15, generated, isUnique,
             attempts, alt, nGen, nEval, lastGen, passed, written>>

guardVars == <<candidate, references, verdict, gpc>>

\* a text variable not yet assigned, and a verdict not yet computed
None == <<"undefined">>
NoVerdict == [undefined |-> TRUE]

----------------------------------------------------------------------------
(* Characters *)

LowerCase == <<"a", "b", "c", "d", "e", "f", "g", "h", "i", "j", "k", "l", "m",
               "n", "o", "p", "q", "r", "s", "t", "u", "v", "w", "x", "y", "z">>
UpperCase == <<"A", "B", "C", "D", "E", "F", "G", "H", "I", "J", "K", "L", "M",
               "N", "O", "P", "Q", "R", "S", "T", "U", "V", "W", "X", "Y", "Z">>
Digits == {"0", "1", "2", "3", "4", "5", "6", "7", "8", "9"}

Range(s) == {s[i] : i \in DOMAIN s}

\* the bullet character U+2022 of the regular expressions of toHtml
Bullet == "U+2022"

\* \s of a regular expression, and what String.prototype.trim removes
IsSpace(c) == c \in {" ", "\n", "\t", "\r"}

\* \w of a regular expression
IsWord(c) == c \in Range(LowerCase) \cup Range(UpperCase) \cup Digits \cup {"_"}

toLowerCase(s) ==
    [i \in DOMAIN s |->
        IF \E k \in DOMAIN UpperCase : UpperCase[k] = s[i]
        THEN LowerCase[CHOOSE k \in DOMAIN UpperCase : UpperCase[k] = s[i]]
        ELSE s[i]]

RECURSIVE Concat(_)
Concat(ss) == IF ss = <<>> THEN <<>> ELSE Head(ss) \o Concat(Tail(ss))

\* Array.prototype.join
RECURSIVE join(_, _)
join(ss, sep) ==
    IF ss = <<>> THEN <<>>
    ELSE IF Len(ss) = 1 THEN ss[1]
    ELSE ss[1] \o sep \o join(Tail(ss), sep)

\* String.prototype.split on a set of separator characters, each maximal run
\* of them one separator when runs is TRUE (/\s+/), each of them one
\* separator otherwise (a newline); empty pieces are kept, as split keeps them
RECURSIVE SplitFrom(_, _, _, _, _, _)
SplitFrom(s, seps, isRun, i, cur, out) ==
    IF i > Len(s) THEN Append(out, cur)
    ELSE IF s[i] \in seps
         THEN IF isRun /\ i > 1 /\ s[i - 1] \in seps
              THEN SplitFrom(s, seps, isRun, i + 1, cur, out)
              ELSE SplitFrom(s, seps, isRun, i + 1, <<>>, Append(out, cur))
         ELSE SplitFrom(s, seps, isRun, i + 1, Append(cur, s[i]), out)

split(s, seps, isRun) == SplitFrom(s, seps, isRun, 1, <<>>, <<>>)

\* String.prototype.trim
RECURSIVE trim(_)
trim(s) ==
    IF s = <<>> THEN s
    ELSE IF IsSpace(s[1]) THEN trim(Tail(s))
    ELSE IF IsSpace(s[Len(s)]) THEN trim(SubSeq(s, 1, Len(s) - 1))
    ELSE s

----------------------------------------------------------------------------
(* The novelty guard *)

\* function stripHtml(s): s.replace(/<[^>]+>/g, " ")
RECURSIVE StripFrom(_, _, _)
StripFrom(s, i, out) ==
    IF i > Len(s) THEN out
    ELSE LET closers == {j \in (i + 1)..Len(s) : s[j] = ">"}
             close == CHOOSE j \in closers : \A k \in closers : j <= k
         IN  IF s[i] = "<" /\ closers # {} /\ close >= i + 2
             THEN StripFrom(s, close + 1, Append(out, " "))
             ELSE StripFrom(s, i + 1, Append(out, s[i]))

stripHtml(s) == StripFrom(s, 1, <<>>)

STOP ==
    {<<"t", "h", "e">>, <<"a">>, <<"a", "n", "d">>, <<"o", "r">>,
     <<"b", "u", "t">>, <<"i", "f">>, <<"t", "h", "e", "n">>, <<"t", "o">>,
     <<"o", "f">>, <<"i", "n">>, <<"o", "n">>, <<"f", "o", "r">>,
     <<"a", "t">>, <<"i", "s">>, <<"a", "r", "e">>, <<"b", "e">>,
     <<"a", "s">>, <<"i", "t">>, <<"t", "h", "a", "t">>, <<"t", "h", "i", "s">>,
     <<"w", "i", "t", "h">>, <<"b", "y">>, <<"a", "n">>, <<"f", "r", "o", "m">>,
     <<"w", "e">>, <<"y", "o", "u">>, <<"i">>}

\* the backtick character of the first regular expression of tokenize
Backtick == "U+0060"

Markers == {"#", "*", "_", Backtick, "~", ">"}

tokenize(text) ==
    LET lowered == toLowerCase(text)
        unmarked == [i \in DOMAIN lowered |->
                        IF lowered[i] \in Markers THEN " " ELSE lowered[i]]
        worded == [i \in DOMAIN unmarked |->
                        IF ~IsWord(unmarked[i]) /\ ~IsSpace(unmarked[i])
                        THEN " " ELSE unmarked[i]]
        Keep(t) == t # <<>> /\ t \notin STOP
    IN  SelectSeq(split(worded, {" ", "\n", "\t", "\r"}, TRUE), Keep)

\* The property names every object inherits from Object.prototype that a
\* token can spell: tokens are lower case and hold no underscore, which
\* leaves "constructor" (toString, valueOf, hasOwnProperty, isPrototypeOf,
\* propertyIsEnumerable, toLocaleString hold a capital; __proto__ and the
\* __define/lookup..__ names hold underscores).
Inherited == {<<"c", "o", "n", "s", "t", "r", "u", "c", "t", "o", "r">>}

\* what is not a number: the inherited function, and the string that
\* (f[t] || 0) + 1 makes of it (a count is never negative)
NotANumber == -1

\* function freq(tokens): f = {}; f[t] = (f[t] || 0) + 1
freq(tokens) ==
    [t \in Range(tokens) |->
        IF t \in Inherited THEN NotANumber
        ELSE Cardinality({i \in DOMAIN tokens : tokens[i] = t})]

\* A[t] || 0 on an object built by freq
Lookup(A, t) ==
    IF t \in DOMAIN A THEN A[t]
    ELSE IF t \in Inherited THEN NotANumber
    ELSE 0

\* += over the values of f
RECURSIVE Sum(_)
Sum(f) ==
    IF DOMAIN f = {} THEN 0
    ELSE LET t == CHOOSE x \in DOMAIN f : TRUE
         IN  f[t] + Sum([u \in DOMAIN f \ {t} |-> f[u]])

\* a cosine score: NaN, or the fraction dot / sqrt(sq)
NaNScore == [nan |-> TRUE, dot |-> 0, sq |-> 1]
Score(dot, sq) == [nan |-> FALSE, dot |-> dot, sq |-> sq]

\* cosineSim with the terms of a alone
cosineSimOwnTerms(a, b) ==
    LET A == freq(a)
        B == freq(b)
        terms == DOMAIN A
    IN  IF \E t \in terms : Lookup(A, t) = NotANumber \/ Lookup(B, t) = NotANumber
        THEN NaNScore
        ELSE LET dot == Sum([t \in terms |-> Lookup(A, t) * Lookup(B, t)])
                 magA == Sum([t \in terms |-> Lookup(A, t) * Lookup(A, t)])
                 magB == Sum([t \in terms |-> Lookup(B, t) * Lookup(B, t)])
             IN  Score(dot, IF magA * magB = 0 THEN 1 ELSE magA * magB)

\* function cosineSim(a, b):
\*   dot / (Math.sqrt(magA)*Math.sqrt(magB) || 1)
\* as the fraction dot / sqrt(sq); sq is magA*magB, or 1 when that is 0.
\* A product with a non-number is NaN, and so are the sums and the quotient.
cosineSim(a, b) ==
    LET A == freq(a)
        B == freq(b)
        terms == DOMAIN A \cup DOMAIN B
    IN  IF \E t \in terms : Lookup(A, t) = NotANumber \/ Lookup(B, t) = NotANumber
        THEN NaNScore
        ELSE LET dot == Sum([t \in terms |-> Lookup(A, t) * Lookup(B, t)])
                 magA == Sum([t \in terms |-> Lookup(A, t) * Lookup(A, t)])
                 magB == Sum([t \in terms |-> Lookup(B, t) * Lookup(B, t)])
             IN  Score(dot, IF magA * magB = 0 THEN 1 ELSE magA * magB)

\* function ngrams(tokens, n=3): tokens.slice(i,i+n).join(" ") for
\* i = 0 .. tokens.length-n
ngrams(tokens, n) ==
    [i \in 1..(IF Len(tokens) >= n THEN Len(tokens) - n + 1 ELSE 0) |->
        join(SubSeq(tokens, i, i + n - 1), <<" ">>)]

\* jaccard over the sum of the sizes instead of the size of the union
jaccardSumOfSizes(aSet, bSet) ==
    LET inter == {g \in aSet : g \in bSet}
        total == Cardinality(aSet) + Cardinality(bSet)
    IN  [num |-> Cardinality(inter), den |-> IF total = 0 THEN 1 ELSE total]

\* function jaccard(aSet, bSet): inter.size / (uni.size || 1)
jaccard(aSet, bSet) ==
    LET inter == {g \in aSet : g \in bSet}
        uni == aSet \cup bSet
    IN  [num |-> Cardinality(inter),
         den |-> IF Cardinality(uni) = 0 THEN 1 ELSE Cardinality(uni)]

\* the thresholds of ensureNovelty, in hundredths
CosThreshold == 78
JacThreshold == 32
TrigramSize == 3

\* cos > 0.78: dot/sqrt(sq) > 78/100 with dot >= 0, squared; any comparison
\* with NaN is false
CosExceeds(cos) ==
    /\ ~cos.nan
    /\ cos.dot * cos.dot * 100 * 100 > CosThreshold * CosThreshold * cos.sq

\* jac > 0.32
JacExceeds(jac) == jac.num * 100 > JacThreshold * jac.den

Hint == "Change structure and examples; focus on a different facet (policy, ROI, or onboarding). Avoid repeating phrases."

Rejected == [ok |-> FALSE, hint |-> Hint]
Accepted == [ok |-> TRUE]

\* the scores ensureNovelty computes for one reference
cosOf(candText, html) ==
    cosineSim(tokenize(stripHtml(candText)), tokenize(stripHtml(html)))

jacOf(candText, html) ==
    jaccard(Range(ngrams(tokenize(stripHtml(candText)), TrigramSize)),
            Range(ngrams(tokenize(stripHtml(html)), TrigramSize)))

\* the loop of ensureNovelty with both thresholds required
RECURSIVE NoveltyLoopBoth(_, _, _, _)
NoveltyLoopBoth(candTokens, candTri, recentHtmlArray, i) ==
    IF i > Len(recentHtmlArray) THEN Accepted
    ELSE LET prev == stripHtml(recentHtmlArray[i])
             prevTokens == tokenize(prev)
             cos == cosineSim(candTokens, prevTokens)
             tri == Range(ngrams(prevTokens, TrigramSize))
             jac == jaccard(candTri, tri)
         IN  IF CosExceeds(cos) /\ JacExceeds(jac)
             THEN Rejected
             ELSE NoveltyLoopBoth(candTokens, candTri, recentHtmlArray, i + 1)

\* the loop of ensureNovelty returning on the first reference either way
NoveltyLoopFirstOnly(candTokens, candTri, recentHtmlArray, i) ==
    IF i > Len(recentHtmlArray) THEN Accepted
    ELSE LET prev == stripHtml(recentHtmlArray[i])
             prevTokens == tokenize(prev)
             cos == cosineSim(candTokens, prevTokens)
             tri == Range(ngrams(prevTokens, TrigramSize))
             jac == jaccard(candTri, tri)
         IN  IF CosExceeds(cos) \/ JacExceeds(jac)
             THEN Rejected
             ELSE Accepted

\* the loop of function ensureNovelty (lines 212-224)
RECURSIVE NoveltyLoop(_, _, _, _)
NoveltyLoop(candTokens, candTri, recentHtmlArray, i) ==
    IF i > Len(recentHtmlArray) THEN Accepted
    ELSE LET prev == stripHtml(recentHtmlArray[i])
             prevTokens == tokenize(prev)
             cos == cosineSim(candTokens, prevTokens)
             tri == Range(ngrams(prevTokens, TrigramSize))
             jac == jaccard(candTri, tri)
         IN  IF CosExceeds(cos) \/ JacExceeds(jac)
             THEN Rejected
             ELSE NoveltyLoop(candTokens, candTri, recentHtmlArray, i + 1)

\* function ensureNovelty(candidate, recentHtmlArray)
ensureNovelty(candText, recentHtmlArray) ==
    LET candTokens == tokenize(stripHtml(candText))
        candTri == Range(ngrams(candTokens, TrigramSize))
    IN  NoveltyLoop(candTokens, candTri, recentHtmlArray, 1)

----------------------------------------------------------------------------
(* Rendering a post *)

EscapeOf(c) ==
    IF c = "&" THEN <<"&", "a", "m", "p", ";">>
    ELSE IF c = "<" THEN <<"&", "l", "t", ";">>
    ELSE IF c = ">" THEN <<"&", "g", "t", ";">>
    ELSE IF c = "\"" THEN <<"&", "q", "u", "o", "t", ";">>
    ELSE <<c>>

\* function escapeHtml(s): s.replace(/[&<>"]/g, c => ...)
escapeHtml(s) == Concat([i \in DOMAIN s |-> EscapeOf(s[i])])

IsBulletStart(l) == l # <<>> /\ l[1] \in {"-", "*", Bullet}

\* l.replace(/^[-*U+2022]\s?/, "") on a line that starts with a bullet
Unbullet(l) ==
    IF Len(l) >= 2 /\ IsSpace(l[2]) THEN SubSeq(l, 3, Len(l))
    ELSE SubSeq(l, 2, Len(l))

RECURSIVE HtmlLines(_, _, _, _)
HtmlLines(lines, i, inList, out) ==
    IF i > Len(lines)
    THEN IF inList THEN Append(out, <<"<", "/", "u", "l", ">">>) ELSE out
    ELSE LET l == lines[i]
         IN  IF IsBulletStart(l)
             THEN HtmlLines(lines, i + 1, TRUE,
                     (IF inList THEN out ELSE Append(out, <<"<", "u", "l", " ", "c", "l", "a", "s", "s", "=", "\"", "b", "u", "l", "l", "e", "t", "s", "\"", ">">>))
                     \o <<<<"<", "l", "i", ">">> \o escapeHtml(Unbullet(l)) \o <<"<", "/", "l", "i", ">">>>>)
             ELSE IF l = <<>>
             THEN HtmlLines(lines, i + 1, FALSE,
                     IF inList THEN Append(out, <<"<", "/", "u", "l", ">">>) ELSE out)
             ELSE HtmlLines(lines, i + 1, inList,
                     Append(out, <<"<", "p", ">">> \o escapeHtml(l) \o <<"<", "/", "p", ">">>))

\* function toHtml(markdown)
toHtml(markdown) ==
    LET raw == split(markdown, {"\n"}, FALSE)
        lines == [i \in DOMAIN raw |-> trim(raw[i])]
    IN  join(HtmlLines(lines, 1, FALSE, <<>>), <<"\n">>)

TitleMax == 100

\* function titleFrom(line): line.replace(/[#*-]/g,"").trim().slice(0, 100)
titleFrom(line) ==
    LET Keep(c) == c \notin {"#", "*", "-"}
        t == trim(SelectSeq(line, Keep))
    IN  SubSeq(t, 1, IF Len(t) < TitleMax THEN Len(t) ELSE TitleMax)

DefaultTitle == <<"A", "I", " ", Bullet, " ", "U", "X", " ", Bullet, " ", "D", "a", "i", "l", "y", " ", "I", "n", "s", "i", "g", "h", "t">>

\* function deriveTitle(text): the first line l with l.trim() not empty
deriveTitle(text) ==
    LET lines == split(text, {"\n"}, FALSE)
        full == {i \in DOMAIN lines : trim(lines[i]) # <<>>}
    IN  IF full = {} THEN titleFrom(DefaultTitle)
        ELSE titleFrom(lines[CHOOSE i \in full : \A k \in full : i <= k])

\* text.match(/#[A-Za-z0-9_]+/g), each match without its "#"
RECURSIVE TagsFrom(_, _, _)
TagsFrom(s, i, out) ==
    IF i > Len(s) THEN out
    ELSE IF s[i] = "#" /\ i < Len(s) /\ IsWord(s[i + 1])
         THEN LET stops == {j \in (i + 1)..Len(s) : ~IsWord(s[j])}
                  last == IF stops = {} THEN Len(s)
                          ELSE (CHOOSE j \in stops : \A k \in stops : j <= k) - 1
              IN  TagsFrom(s, last + 1, Append(out, SubSeq(s, i + 1, last)))
         ELSE TagsFrom(s, i + 1, out)

\* Array.from(new Set(seq)): the first occurrence of each element, in order
Distinct(seq) ==
    LET First(i) == \A k \in 1..(i - 1) : seq[k] # seq[i]
        idx == {i \in DOMAIN seq : First(i)}
        RECURSIVE Pick(_)
        Pick(i) == IF i > Len(seq) THEN <<>>
                   ELSE IF i \in idx THEN <<seq[i]>> \o Pick(i + 1)
                   ELSE Pick(i + 1)
    IN  Pick(1)

BaseTags == <<<<"A", "r", "t", "i", "f", "i", "c", "i", "a", "l", "I", "n", "t", "e", "l", "l", "i", "g", "e", "n", "c", "e">>, <<"U", "s", "e", "r", "E", "x", "p", "e", "r", "i", "e", "n", "c", "e">>, <<"F", "u", "t", "u", "r", "e", "O", "f", "W", "o", "r", "k">>>>

MaxTags == 7

RECURSIVE AddBase(_, _)
AddBase(tags, i) ==
    IF i > Len(BaseTags) THEN tags
    ELSE AddBase(IF BaseTags[i] \in Range(tags) THEN tags
                 ELSE Append(tags, BaseTags[i]), i + 1)

\* function deriveHashtags(text)
deriveHashtags(text) ==
    LET tags == AddBase(Distinct(TagsFrom(text, 1, <<>>)), 1)
    IN  SubSeq(tags, 1, IF Len(tags) < MaxTags THEN Len(tags) ELSE MaxTags)

KeepPosts == 365

\* the entry writePost builds; the sha1 digest is the uninterpreted term
\* over what it hashes
Entry(body, title, hashtags, date) ==
    [id |-> <<"sha1", body, date>>,
     date |-> date,
     title |-> title,
     html |-> toHtml(body),
     hashtags |-> hashtags,
     sources |-> <<>>,
     permalink |-> <<>>]

\* writePost putting the new entry last
writePostAtEnd(ps, body, title, hashtags, date) ==
    LET all == ps \o <<Entry(body, title, hashtags, date)>>
    IN  SubSeq(all, 1, IF Len(all) < KeepPosts THEN Len(all) ELSE KeepPosts)

\* function writePost(posts, body, title, hashtags): the array written to
\* the file, [entry, ...posts].slice(0, 365)
writePost(ps, body, title, hashtags, date) ==
    LET all == <<Entry(body, title, hashtags, date)>> \o ps
    IN  SubSeq(all, 1, IF Len(all) < KeepPosts THEN Len(all) ELSE KeepPosts)

----------------------------------------------------------------------------
(* Bounds and inputs *)

\* generator processes started in one behaviour
MaxRuns == 2

\* reference texts handed to the guard in the guard harness
MaxRefs == 2

\* main's bound on attempts, and the size of last15
MaxAttempts == 5
RecentCount == 15

\* What chat() returns: data.choices[0].message.content.trim() || "", so a
\* trimmed text, possibly empty.
GenTexts ==
    {<<"x", " ", "y", " ", "z">>,
     <<"q", " ", "r", " ", "s">>,
     <<"u", " ", "v", " ", "w">>,
     <<"#", " ", "X", " ", "y", " ", "z", "\n", "-", " ", "q", " ", "&", " ", "r">>,
     <<>>}

\* the bodies of the posts written before the first run of a behaviour
OldBodies == <<<<"x", " ", "y", " ", "z">>, <<"q", " ", "r", " ", "s">>>>

OldBody(i) == OldBodies[((i - 1) % Len(OldBodies)) + 1]

\* a feed of n posts written by n earlier runs, the newest first
OldFeed(n) ==
    [i \in 1..n |->
        Entry(OldBody(i), deriveTitle(OldBody(i)), deriveHashtags(OldBody(i)), 0 - i)]

\* lengths of the feed before the first run: empty, at the size of last15,
\* and one short of the 365 kept
OldLengths == {0, RecentCount, KeepPosts - 1}

\* the lengths among them that the termination of a run is checked from
ShortLengths == {0, RecentCount}

\* texts of the guard harness: candidates and references
GuardTexts ==
    {<<>>,
     <<"<", "p", ">", "T", "h", "e", ",", " ", "a", "!", "<", "/", "p", ">">>,
     <<"x", " ", "y", " ", "z">>,
     <<"<", "p", ">", "X", ",", " ", "y", " ", "z", ".", "<", "/", "p", ">">>,
     <<"z", " ", "y", " ", "x">>,
     <<"x", " ", "y">>,
     <<"x", " ", "y", " ", "z", " ", "z", " ", "z", " ", "z", " ", "z">>,
     <<"x", " ", "y", " ", "z", " ", "q">>,
     <<"q", " ", "r", " ", "s">>,
     <<"c", "o", "n", "s", "t", "r", "u", "c", "t", "o", "r">>}

RefLists == UNION {[1..n -> GuardTexts] : n \in 0..MaxRefs}

----------------------------------------------------------------------------
(* main() *)

\* Array.prototype.slice(0, n)
slice(seq, n) == SubSeq(seq, 1, IF Len(seq) < n THEN Len(seq) ELSE n)

\* last15.map(p => p.html)
Htmls(ps) == [i \in DOMAIN ps |-> ps[i].html]

Terminal == {"Accepted", "Exhausted", "Error"}

InitFrom(lengths) ==
    /\ feed \in {OldFeed(n) : n \in lengths}
    /\ today = 0
    /\ runs = 0
    /\ pc = "Idle"
    /\ posts = <<>>
    /\ last15 = <<>>
    /\ generated = None
    /\ isUnique = NoVerdict
    /\ attempts = 0
    /\ alt = None
    /\ nGen = 0
    /\ nEval = 0
    /\ lastGen = None
    /\ passed = <<>>
    /\ written = <<>>
    /\ candidate = <<>>
    /\ references = <<>>
    /\ verdict = NoVerdict
    /\ gpc = "off"

Init == InitFrom(OldLengths)

\* the loop test with the bound included
LoopContinuesInclusive(ok, n) == ~ok /\ n <= MaxAttempts

\* the loop test without the verdict
LoopContinuesAnyVerdict(ok, n) == n < MaxAttempts

\* while (!isUnique.ok && attempts < 5) (line 95)
LoopContinues(ok, n) == ~ok /\ n < MaxAttempts

\* the body written after the loop, were it the latest candidate
AfterLoopBodyLatest == lastGen

\* the body of writePost(posts, generated, title, hashtags) (line 106)
AfterLoopBody == generated

\* a new process: todayISO, then main reads the file and takes last15
\* (lines 64-69)
StartRun ==
    /\ pc \in Terminal \cup {"Idle"}
    /\ runs < MaxRuns
    /\ runs' = runs + 1
    /\ today' = today + 1
    /\ posts' = feed
    /\ last15' = slice(feed, RecentCount)
    /\ pc' = "Trends"
    /\ generated' = None
    /\ isUnique' = NoVerdict
    /\ attempts' = 0
    /\ alt' = None
    /\ nGen' = 0
    /\ nEval' = 0
    /\ lastGen' = None
    /\ passed' = <<>>
    /\ written' = <<>>
    /\ UNCHANGED <<feed, guardVars>>

\* await fetchTrends() returns; pickAngle and the prompts (lines 70-86)
TrendsOk ==
    /\ pc = "Trends"
    /\ pc' = "Generating"
    /\ UNCHANGED <<feed, today, runs, posts, last15, generated, isUnique,
                   attempts, alt, nGen, nEval, lastGen, passed, written,
                   guardVars>>

\* await fetchTrends() rejects: the catch of main (lines 108-111)
TrendsFail ==
    /\ pc = "Trends"
    /\ pc' = "Error"
    /\ UNCHANGED <<feed, today, runs, posts, last15, generated, isUnique,
                   attempts, alt, nGen, nEval, lastGen, passed, written,
                   guardVars>>

\* await chat(...) returns text: the first call sets generated (line 88),
\* a call of the loop sets alt (line 98)
ChatOk(text) ==
    /\ pc = "Generating"
    /\ IF nGen = 0
       THEN generated' = text /\ alt' = alt
       ELSE alt' = text /\ generated' = generated
    /\ lastGen' = text
    /\ nGen' = nGen + 1
    /\ pc' = "Evaluating"
    /\ UNCHANGED <<feed, today, runs, posts, last15, isUnique, attempts,
                   nEval, passed, written, guardVars>>

\* the catch of main, were it to publish the draft it holds
ChatFailPublishesDraft ==
    /\ pc = "Generating"
    /\ pc' = "Error"
    /\ IF nGen > 0
       THEN /\ feed' = writePost(posts, generated, deriveTitle(generated),
                                 deriveHashtags(generated), today)
            /\ written' = Append(written, generated)
       ELSE UNCHANGED <<feed, written>>
    /\ UNCHANGED <<today, runs, posts, last15, generated, isUnique,
                   attempts, alt, nGen, nEval, lastGen, passed, guardVars>>

\* await chat(...) throws (line 168, or fetch rejects): the catch of main
ChatFail ==
    /\ pc = "Generating"
    /\ pc' = "Error"
    /\ UNCHANGED <<feed, today, runs, posts, last15, generated, isUnique,
                   attempts, alt, nGen, nEval, lastGen, passed, written,
                   guardVars>>

\* lines 89-95 and, when the loop is not entered, line 106
EvaluateGenerated ==
    /\ pc = "Evaluating"
    /\ attempts = 0
    /\ LET title == deriveTitle(generated)
           hashtags == deriveHashtags(generated)
           v == ensureNovelty(generated, Htmls(last15))
       IN  /\ isUnique' = v
           /\ attempts' = 1
           /\ nEval' = nEval + 1
           /\ passed' = IF v.ok THEN Append(passed, generated) ELSE passed
           /\ IF LoopContinues(v.ok, 1)
              THEN /\ pc' = "Generating"
                   /\ UNCHANGED <<feed, written>>
              ELSE /\ feed' = writePost(posts, AfterLoopBody, title, hashtags, today)
                   /\ written' = Append(written, AfterLoopBody)
                   /\ pc' = IF v.ok THEN "Accepted" ELSE "Exhausted"
    /\ UNCHANGED <<today, runs, posts, last15, generated, alt, nGen, lastGen,
                   guardVars>>

\* lines 99-106: the rest of one loop iteration, the loop test, and the
\* write after the loop
EvaluateAlt ==
    /\ pc = "Evaluating"
    /\ attempts >= 1
    /\ LET v == ensureNovelty(alt, Htmls(last15))
       IN  /\ nEval' = nEval + 1
           /\ IF v.ok
              THEN /\ feed' = writePost(posts, alt, titleFrom(alt),
                                        deriveHashtags(alt), today)
                   /\ written' = Append(written, alt)
                   /\ passed' = Append(passed, alt)
                   /\ attempts' = attempts
                   /\ pc' = "Accepted"
              ELSE /\ attempts' = attempts + 1
                   /\ passed' = passed
                   /\ IF LoopContinues(isUnique.ok, attempts + 1)
                      THEN /\ pc' = "Generating"
                           /\ UNCHANGED <<feed, written>>
                      ELSE /\ feed' = writePost(posts, AfterLoopBody,
                                        deriveTitle(generated),
                                        deriveHashtags(generated), today)
                           /\ written' = Append(written, AfterLoopBody)
                           /\ pc' = IF isUnique.ok THEN "Accepted" ELSE "Exhausted"
    /\ UNCHANGED <<today, runs, posts, last15, generated, isUnique, alt, nGen,
                   lastGen, guardVars>>

Next ==
    \/ StartRun
    \/ TrendsOk
    \/ TrendsFail
    \/ \E text \in GenTexts : ChatOk(text)
    \/ ChatFail
    \/ EvaluateGenerated
    \/ EvaluateAlt

Spec == Init /\ [][Next]_vars

\* Every await of main settles (fetchTrends and the generation call return
\* or throw) and the synchronous code after an await runs to the next await
\* or to the end of main; when a process is started is left to the
\* scheduler.
TrendsSettles == TrendsOk \/ TrendsFail

ChatSettles == ChatFail \/ \E text \in GenTexts : ChatOk(text)

\* the step of EvaluateGenerated or EvaluateAlt, the only steps that leave
\* Evaluating, named by what it does to pc.  Each of these steps changes
\* pc, so fairness is stated on the steps that change pc.
Evaluated ==
    /\ pc = "Evaluating"
    /\ pc' \in {"Generating", "Accepted", "Exhausted"}

LiveInit == InitFrom(ShortLengths)

LiveSpec ==
    /\ LiveInit
    /\ [][Next]_vars
    /\ WF_pc(TrendsSettles)
    /\ WF_pc(ChatSettles)
    /\ WF_pc(Evaluated)

----------------------------------------------------------------------------
(* The guard alone: ensureNovelty applied to a candidate and references *)

GuardInit ==
    /\ feed = <<>>
    /\ today = 0
    /\ runs = 0
    /\ pc = "Idle"
    /\ posts = <<>>
    /\ last15 = <<>>
    /\ generated = None
    /\ isUnique = NoVerdict
    /\ attempts = 0
    /\ alt = None
    /\ nGen = 0
    /\ nEval = 0
    /\ lastGen = None
    /\ passed = <<>>
    /\ written = <<>>
    /\ candidate \in GuardTexts
    /\ references \in RefLists
    /\ verdict = NoVerdict
    /\ gpc = "input"

GuardEvaluate ==
    /\ gpc = "input"
    /\ verdict' = ensureNovelty(candidate, references)
    /\ gpc' = "done"
    /\ UNCHANGED <<candidate, references, runVars>>

GuardNext == GuardEvaluate

GuardSpec == GuardInit /\ [][GuardNext]_vars

----------------------------------------------------------------------------
(* Claims *)

Min(a, b) == IF a < b THEN a ELSE b

Tokens(text) == tokenize(stripHtml(text))

\* the scores as numbers: a cosine score is 0, is 1, is above 0.78
CosIsZero(cos) == ~cos.nan /\ cos.dot = 0
CosIsOne(cos) == ~cos.nan /\ cos.dot * cos.dot = cos.sq
CosAbove78(cos) == ~cos.nan /\ cos.dot * cos.dot * 10000 > 6084 * cos.sq
JacIsZero(jac) == jac.num = 0
JacIsOne(jac) == jac.num = jac.den
JacAbove32(jac) == jac.num * 100 > 32 * jac.den

Fails(candText, html) ==
    CosAbove78(cosOf(candText, html)) \/ JacAbove32(jacOf(candText, html))

\* C1 (as stated): when the run is Exhausted, the post written is the
\* candidate of the last generation call of the run.
C1_LastCandidateWritten ==
    pc = "Exhausted" =>
        /\ written = <<lastGen>>
        /\ feed[1].html = toHtml(lastGen)

\* C1 (amended): when every evaluated candidate is rejected and the bound of
\* 5 attempts is reached, five candidates were generated and evaluated, and
\* the post written is the first one, the candidate of the initial
\* generation call, although the guard rejected it; the regenerated
\* candidates are dropped.
C1_FirstCandidateWritten ==
    pc = "Exhausted" =>
        /\ nGen = 5
        /\ nEval = 5
        /\ attempts = 5
        /\ passed = <<>>
        /\ ~isUnique.ok
        /\ ~ensureNovelty(generated, Htmls(last15)).ok
        /\ written = <<generated>>
        /\ feed[1] = Entry(generated, deriveTitle(generated),
                           deriveHashtags(generated), today)

C1_Witness ==
    /\ pc = "Exhausted"
    /\ lastGen # generated
    /\ toHtml(lastGen) # toHtml(generated)

\* C2: in any run at most 5 candidates are generated and at most 5 guard
\* evaluations made; no candidate is generated once attempts has reached 5;
\* a run that ended Accepted or Exhausted wrote a post; and a run under way
\* always reaches a terminal state (Error only when a call failed).
C2_BoundedAndTerminates ==
    /\ [](/\ nGen <= 5
          /\ nEval <= 5
          /\ attempts <= 5
          /\ (pc \in {"Accepted", "Exhausted"} => Len(written) = 1))
    /\ [][attempts >= 5 => nGen' <= nGen]_<<attempts, nGen>>
    /\ [][pc' = "Error" => pc \in {"Trends", "Generating"}]_pc
    /\ (pc \in {"Trends", "Generating", "Evaluating"}) ~> (pc \in Terminal)

C2_Witness ==
    /\ pc = "Exhausted"
    /\ nGen = 5
    /\ nEval = 5

\* C3: ensureNovelty rejects, with the fixed hint, exactly when some
\* reference has a cosine score above 0.78 or a trigram Jaccard score above
\* 0.32 against the candidate; otherwise it accepts, with no hint.
C3_RejectsIffSomeReferenceFails ==
    gpc = "done" =>
        IF \E i \in DOMAIN references : Fails(candidate, references[i])
        THEN verdict = [ok |-> FALSE, hint |-> Hint]
        ELSE verdict = [ok |-> TRUE]

\* a rejection by the Jaccard score alone
C3_Witness ==
    /\ gpc = "done"
    /\ ~verdict.ok
    /\ \A i \in DOMAIN references :
          ~CosAbove78(cosOf(candidate, references[i]))
    /\ \E i \in DOMAIN references :
          JacAbove32(jacOf(candidate, references[i]))

Orderings(n) == {f \in [1..n -> 1..n] : \A i, j \in 1..n : f[i] = f[j] => i = j}

\* C5: the verdict (outcome and hint) is the same for every permutation of
\* the reference list.
C5_OrderOfReferences ==
    gpc = "done" =>
        \A f \in Orderings(Len(references)) :
            ensureNovelty(candidate,
                          [i \in DOMAIN references |-> references[f[i]]])
                = verdict

\* the first reference passes and a later one fails
C5_Witness ==
    /\ gpc = "done"
    /\ Len(references) >= 2
    /\ ~Fails(candidate, references[1])
    /\ Fails(candidate, references[2])
    /\ ~verdict.ok

\* C6 (as stated): whenever the candidate or a reference has no token, the
\* cosine and the Jaccard score of that pair are both exactly 0 and the pair
\* does not reject; a candidate with no token is accepted.
C6_DegenerateScoresZero ==
    gpc = "done" =>
        /\ \A i \in DOMAIN references :
              (Tokens(candidate) = <<>> \/ Tokens(references[i]) = <<>>) =>
                  /\ CosIsZero(cosOf(candidate, references[i]))
                  /\ JacIsZero(jacOf(candidate, references[i]))
                  /\ ~Fails(candidate, references[i])
        /\ Tokens(candidate) = <<>> => verdict = [ok |-> TRUE]

\* C7: cosineSim and jaccard give the same score with their arguments
\* exchanged, and a text against one reference has the outcome of that
\* reference against the text.
C7_Symmetric ==
    gpc = "done" =>
        \A i \in DOMAIN references :
            LET a == Tokens(candidate)
                b == Tokens(references[i])
                A == Range(ngrams(a, TrigramSize))
                B == Range(ngrams(b, TrigramSize))
            IN  /\ cosineSim(a, b) = cosineSim(b, a)
                /\ jaccard(A, B) = jaccard(B, A)
                /\ ensureNovelty(candidate, <<references[i]>>).ok
                     = ensureNovelty(references[i], <<candidate>>).ok

\* two texts with different vocabularies and a positive score
C7_Witness ==
    /\ gpc = "done"
    /\ \E i \in DOMAIN references :
          /\ Range(Tokens(candidate)) # Range(Tokens(references[i]))
          /\ Len(Tokens(candidate)) # Len(Tokens(references[i]))
          /\ ~cosOf(candidate, references[i]).nan
          /\ cosOf(candidate, references[i]).dot > 0
          /\ jacOf(candidate, references[i]).num > 0

\* C8: a run writes at most one post, and exactly one when it ended
\* Accepted or Exhausted; once a candidate has passed the guard the run is
\* Accepted, the post written is that candidate, it is the only candidate
\* that passed and the latest one generated, and every candidate generated
\* was evaluated.
C8_FirstAcceptedWritten ==
    /\ Len(written) <= 1
    /\ pc \in {"Accepted", "Exhausted"} => Len(written) = 1
    /\ passed # <<>> =>
          /\ pc = "Accepted"
          /\ Len(passed) = 1
          /\ written = passed
          /\ lastGen = passed[1]
          /\ nEval = nGen
          /\ feed[1].html = toHtml(passed[1])
          /\ feed[1].date = today

\* a candidate of the loop passed after the first one was rejected
C8_Witness ==
    /\ pc = "Accepted"
    /\ nGen >= 3
    /\ passed = <<alt>>
    /\ alt # generated

\* C9: a run that ended in Error wrote nothing: writePost was not called
\* and the file is as main read it.
C9_ErrorWritesNothing ==
    pc = "Error" =>
        /\ written = <<>>
        /\ feed = posts

\* a regeneration failed after two candidates were rejected
C9_Witness ==
    /\ pc = "Error"
    /\ nGen >= 2
    /\ nEval = nGen
    /\ ~isUnique.ok

\* C10: after a successful run the feed is the new entry followed by the
\* posts read, in their order, cut to 365: its length is
\* min(365, previous length + 1); the feed never exceeds 365; and the
\* references of a run are the first 15 posts of the feed it read.
C10_FeedShape ==
    /\ Len(feed) <= 365
    /\ pc \in {"Accepted", "Exhausted"} =>
          /\ Len(feed) = Min(365, Len(posts) + 1)
          /\ feed[1].date = today
          /\ feed[1].html = toHtml(written[1])
          /\ \A i \in 2..Len(feed) : feed[i] = posts[i - 1]
          /\ \A i \in 2..Len(feed) : feed[i].date < today
    /\ pc # "Idle" =>
          /\ Len(last15) = Min(15, Len(posts))
          /\ \A i \in DOMAIN last15 : last15[i] = posts[i]
    /\ pc \in {"Trends", "Generating", "Evaluating", "Error"} => feed = posts

\* a write that dropped the oldest post, in a run whose references were
\* cut to 15
C10_Witness ==
    /\ pc \in {"Accepted", "Exhausted"}
    /\ Len(posts) = 365
    /\ Len(feed) = 365
    /\ Len(last15) = 15
    /\ runs = 2

====
